---- MODULE Spec2Model ----
(***************************************************************************)
(* The AgentLego tool server (agentlego/server/server.py): `start` loads   *)
(* the requested tools, sets them up, binds one POST route per tool with   *)
(* add_tool and then serves requests; each request is validated against    *)
(* the synthesized signature and handed to the closure `call`.             *)
(***************************************************************************)
EXTENDS Integers, Sequences, FiniteSets, TLC

\* ------------------------------------------------------------------ bounds
MaxTools   == 2     \* tools given to one `start` command
MaxInputs  == 2     \* declared inputs of a tool
MaxOutputs == 2     \* declared outputs of a tool

\* ------------------------------------------------------------ Python values
\* Every Python value is a tagged record, so that values of different types
\* can be compared.
NoneV     == [kind |-> "None"]
EmptyV    == [kind |-> "_empty"]                  \* inspect._empty
StrV(s)   == [kind |-> "str", chars |-> s]        \* s: a sequence of characters
IntV(n)   == [kind |-> "int", num |-> n]
IsNone(v) == v.kind = "None"

\* str.replace(' ', '_')
RECURSIVE Replace(_)
Replace(s) ==
    IF s = <<>> THEN <<>>
    ELSE <<IF Head(s) = " " THEN "_" ELSE Head(s)>> \o Replace(Tail(s))

\* str.rpartition('.')[-1]: the text after the last '.', the whole string
\* when it holds no '.'.
RPartitionLast(s) ==
    LET dots == {k \in 1..Len(s) : s[k] = "."}
        last == IF dots = {} THEN 0 ELSE CHOOSE k \in dots : \A j \in dots : j <= k
    IN  SubSeq(s, last + 1, Len(s))

\* `x or None` for a string x
OrNone(s) == IF s = <<>> THEN NoneV ELSE StrV(s)

\* ------------------------------------------------------- tool descriptors
PrimitiveTypes == {"int", "str"}
MediaTypes     == {"ImageIO", "AudioIO"}
Types          == PrimitiveTypes \cup MediaTypes

Descriptions == {NoneV, StrV(<<>>), StrV(<<"d">>)}

\* Inputs are named x1, x2, ... and outputs y1, y2, ...
OutName(k) == <<"y", k>>

\* A declared parameter (agentlego.schema.Parameter).
Param(n, t, o, d, desc) ==
    [name |-> n, type |-> t, optional |-> o, default |-> d, description |-> desc]

Decls(types, descs) ==
    {[type |-> t, optional |-> od[1], default |-> od[2], description |-> d] :
        t \in types, d \in descs,
        od \in {<<FALSE, NoneV>>, <<TRUE, NoneV>>, <<TRUE, IntV(5)>>}}

\* An optional media input can only default to None.
InputDecls(types, descs) ==
    {p \in Decls(types, descs) : p.type \in MediaTypes => p.default = NoneV}

OutputDecls(types) ==
    {[type |-> t, optional |-> FALSE, default |-> NoneV, description |-> NoneV] :
        t \in types}

\* The sequences of at most n declarations of S, named by position.
Named(S, n, prefix) ==
    UNION {{[k \in 1..m |->
                Param(<<prefix, k>>, f[k].type, f[k].optional, f[k].default, f[k].description)] :
            f \in [1..m -> S]} : m \in 0..n}

\* The inputs come from the signature of the tool's apply(): a parameter
\* without a default never follows one with a default.
InputLists(S, n) ==
    {ins \in Named(S, n, "x") :
        \A j, k \in 1..Len(ins) : (j < k /\ ins[j].optional) => ins[k].optional}

Tool(n, desc, ins, outs) ==
    [name |-> n, description |-> desc, inputs |-> ins, outputs |-> outs]

\* agentlego/tools/ocr: one required image in, one string out.
OCR(n) ==
    Tool(n, StrV(<<"This tool can recognize all text on the input image.">>),
         <<Param(<<"image">>, "ImageIO", FALSE, NoneV, NoneV)>>,
         <<Param(OutName(1), "str", FALSE, NoneV,
                 StrV(<<"OCR results">>))>>)

\* Tool names: "Text OCR", "Text_OCR", "TextOCR" and "OCR", spelled by character.
Names ==
    {<<"T", " ", "O">>, <<"T", "_", "O">>, <<"T", "O">>, <<"O">>}

\* The tools `start` is tried with.
ServerTools == {OCR(n) : n \in Names}

\* Tools of at most n inputs of every kind, with one string output.
DecodeTools(n) ==
    {Tool(<<"D">>, StrV(<<"decode">>), ins, <<Param(OutName(1), "str", FALSE, NoneV, NoneV)>>) :
        ins \in InputLists(InputDecls({"int", "ImageIO", "AudioIO"}, {NoneV}), n)}

\* Tools of no input and at most n outputs of every type.
EncodeTools(n) ==
    {Tool(<<"E">>, StrV(<<"encode">>), <<>>, outs) :
        outs \in Named(OutputDecls(Types), n, "y")}

\* Tools of at most n inputs of every kind and description, with no output.
SchemaTools(n) ==
    {Tool(<<"S">>, StrV(<<"schema">>), ins, <<>>) :
        ins \in InputLists(InputDecls(Types, Descriptions), n)}

\* -------------------------------------------------------- schema synthesis
\* One inspect.Parameter: a File(...) or Form(...) field, its default.
Field(p) ==
    LET described == IF p.description.kind = "str" /\ p.description.chars # <<>>
                     THEN [description |-> p.description]
                     ELSE [description |-> NoneV]
    IN  IF p.type = "ImageIO"
        THEN [source |-> "File", type |-> "UploadFile", format |-> StrV(<<"image;binary">>)]
             @@ described
        ELSE IF p.type = "AudioIO"
        THEN [source |-> "File", type |-> "UploadFile", format |-> StrV(<<"audio;binary">>)]
             @@ described
        ELSE [source |-> "Form", type |-> p.type, format |-> NoneV] @@ described

\* The parameter default taken from the declaration whether optional or not.
ParamDefault_Always(p) == p.default

ParamDefault(p) == IF p.optional THEN p.default ELSE EmptyV

create_input_params(tool) ==
    [k \in 1..Len(tool.inputs) |->
        [name       |-> tool.inputs[k].name,
         default    |-> ParamDefault(tool.inputs[k]),
         annotation |-> Field(tool.inputs[k])]]

\* The output field with the two media formats exchanged.
OutputField_Swapped(p) ==
    IF p.type = "ImageIO"
    THEN [type |-> "str", format |-> StrV(<<"audio/wav;base64">>)]
    ELSE IF p.type = "AudioIO"
    THEN [type |-> "str", format |-> StrV(<<"image/png;base64">>)]
    ELSE [type |-> p.type, format |-> NoneV]

OutputField(p) ==
    IF p.type = "ImageIO"
    THEN [type |-> "str", format |-> StrV(<<"image/png;base64">>)]
    ELSE IF p.type = "AudioIO"
    THEN [type |-> "str", format |-> StrV(<<"audio/wav;base64">>)]
    ELSE [type |-> p.type, format |-> NoneV]

TupleOf(items) == [kind |-> "tuple", items |-> items]

create_output_model(tool) ==
    LET output_schema == [k \in 1..Len(tool.outputs) |-> OutputField(tool.outputs[k])]
    IN  IF Len(output_schema) = 0 THEN NoneV
        ELSE IF Len(output_schema) = 1 THEN [kind |-> "field", field |-> output_schema[1]]
        ELSE TupleOf(output_schema)

\* ------------------------------------------------------------ the request
Absent == [kind |-> "absent"]                     \* the field is not in the form

Upload(fname, content) ==
    [kind |-> "UploadFile", filename |-> fname, content |-> content]

\* Uploaded file names: "", "a", "a.w", "a." and "a.b.w".
Filenames ==
    {<<>>, <<"a">>, <<"a", ".", "w">>, <<"a", ".">>, <<"a", ".", "b", ".", "w">>}

Contents == {"media", "garbage"}                  \* decodable or not

\* What a client may send for a field of the synthesized signature.
Payloads(param) ==
    IF param.annotation.source = "File"
    THEN {Upload(f, c) :
            f \in (IF param.annotation.format = StrV(<<"audio;binary">>)
                   THEN Filenames ELSE {<<"a", ".", "p">>}),
            c \in Contents}
    ELSE {StrV(<<"7">>), StrV(<<"x">>)}

\* One well-formed payload per field.
PlainPayloads(param) ==
    IF param.annotation.source = "File"
    THEN {Upload(<<"a", ".", "w">>, "media")}
    ELSE {StrV(<<"7">>)}

Sendable(param, wide) == IF wide THEN Payloads(param) ELSE PlainPayloads(param)

\* The forms a client may post to an endpoint with these parameters: each
\* field left out or sent.
Forms(params, wide) ==
    LET upto[k \in 0..Len(params)] ==
            IF k = 0 THEN {<<>>}
            ELSE {Append(f, v) : f \in upto[k - 1],
                                 v \in Sendable(params[k], wide) \cup {Absent}}
    IN  upto[Len(params)]

DigitVal == ("5" :> 5) @@ ("7" :> 7)

\* The hosting framework's validation of one form field against its
\* parameter: TRUE when the request is refused (422) before the endpoint runs.
Refused(param, sent) ==
    IF sent = Absent THEN param.default = EmptyV
    ELSE /\ param.annotation.source = "Form"
         /\ param.annotation.type = "int"
         /\ ~(Len(sent.chars) = 1 /\ sent.chars[1] \in DOMAIN DigitVal)

\* The value the endpoint receives for one parameter.
Received(param, sent) ==
    IF sent = Absent THEN param.default
    ELSE IF param.annotation.source = "Form" /\ param.annotation.type = "int"
    THEN IntV(DigitVal[sent.chars[1]])
    ELSE sent

\* The keyword arguments create_function(signature, call) hands to `call`.
Kwargs(params, form) ==
    [n \in {params[k].name : k \in 1..Len(params)} |->
        LET k == CHOOSE j \in 1..Len(params) : params[j].name = n
        IN  Received(params[k], form[k])]

\* ----------------------------------------------------------- exceptions
Exc(t, m) == [type |-> t, msg |-> m]
\* repr(e)
Repr(e) == StrV(<<e.type, "(", e.msg, ")">>)

\* What a tool raises when it fails: an instance of a subclass of Exception,
\* as are the exceptions of decoding and encoding below.
ToolExceptions == {Exc("RuntimeError", "tool failed")}

\* ----------------------------------------------------- what a tool returns
Obj(id, good) == [kind |-> "obj", id |-> id, good |-> good]

\* What a tool may return: one object, or a tuple of at most n objects.
Returned(n) ==
    {Obj(1, g) : g \in BOOLEAN}
    \cup UNION {{TupleOf([k \in 1..m |-> Obj(k, f[k])]) : f \in [1..m -> BOOLEAN]} :
                m \in 0..n}

\* The tool, when invoked, raises or returns: a single value or a tuple, of as
\* many values as it declares, of fewer or of one more.
Behaviours(tool, wide) ==
    IF wide
    THEN {[kind |-> "raise", exc |-> e, value |-> NoneV] : e \in ToolExceptions}
         \cup {[kind |-> "return", exc |-> NoneV, value |-> v] :
                v \in Returned(Len(tool.outputs) + 1)}
    ELSE {[kind |-> "return", exc |-> NoneV, value |-> TupleOf(<<>>)]}

\* ------------------------------------------------------------ the handler
NA == [kind |-> "n/a"]

Event(op, name, detail, ok) == [op |-> op, name |-> name, detail |-> detail, ok |-> ok]

\* The two ways a step ends: an exception propagating, or a value.
Raise(e, log)  == [raised |-> TRUE, exc |-> e, value |-> NoneV, log |-> log]
Result(v, log) == [raised |-> FALSE, exc |-> NoneV, value |-> v, log |-> log]

\* file_format = data.filename.rpartition('.')[-1] or None
FileFormat(filename) == OrNone(RPartitionLast(filename))

\* p.type(data) for a primitive type: int(n) is n, int(s) parses s or raises,
\* str(s) is s, str(n) spells n.
TypeCall(t, data) ==
    IF t = "int" THEN
        IF data.kind = "int" THEN Result(data, <<>>)
        ELSE IF Len(data.chars) = 1 /\ data.chars[1] \in DOMAIN DigitVal
        THEN Result(IntV(DigitVal[data.chars[1]]), <<>>)
        ELSE Raise(Exc("ValueError", "invalid literal for int()"), <<>>)
    ELSE IF data.kind = "str" THEN Result(data, <<>>)
    ELSE Result(StrV(<<CHOOSE c \in DOMAIN DigitVal : DigitVal[c] = data.num>>), <<>>)

\* The outcome c of decoding a primitive, with its event.
Logged(c, name) ==
    IF c.raised THEN Raise(c.exc, <<Event("decode", name, NA, FALSE)>>)
    ELSE Result(c.value, <<Event("decode", name, NA, TRUE)>>)

\* The body of the input loop for one declared input: the decoded value, a
\* skip (value n/a), or the exception raised.
DecodeInput(p, data) ==
    IF p.type = "ImageIO" THEN
        IF IsNone(data)
        THEN Raise(Exc("AttributeError", "NoneType has no attribute file"),
                   <<Event("decode", p.name, NA, FALSE)>>)
        ELSE IF data.content = "garbage"
        THEN Raise(Exc("UnidentifiedImageError", "cannot identify image file"),
                   <<Event("decode", p.name, NA, FALSE)>>)
        ELSE Result([kind |-> "ImageIO", image |-> data.content],
                    <<Event("decode", p.name, NA, TRUE)>>)
    ELSE IF p.type = "AudioIO" THEN
        IF IsNone(data)
        THEN Raise(Exc("AttributeError", "NoneType has no attribute filename"),
                   <<Event("decode", p.name, NA, FALSE)>>)
        ELSE IF data.content = "garbage"
        THEN Raise(Exc("RuntimeError", "failed to decode audio"),
                   <<Event("decode", p.name, FileFormat(data.filename), FALSE)>>)
        ELSE Result([kind |-> "AudioIO", audio |-> data.content],
                    <<Event("decode", p.name, FileFormat(data.filename), TRUE)>>)
    ELSE IF IsNone(data) THEN Result(NA, <<>>)
    ELSE Logged(TypeCall(p.type, data), p.name)

\* One iteration of the input loop: prev is the loop's state before it, d what
\* decoding the input p gave. A raise ends the loop; `continue` adds nothing.
DecodeStep(prev, p, d) ==
    IF prev.raised THEN prev
    ELSE IF d.raised THEN Raise(d.exc, prev.log \o d.log)
    ELSE IF d.value = NA THEN Result(prev.value, prev.log \o d.log)
    ELSE Result((p.name :> d.value) @@ prev.value, prev.log \o d.log)

\* for p in tool.inputs: ... args[p.name] = data
\* after[k] is the state of the loop after k inputs: the arguments gathered so
\* far, or the exception that ended it.
DecodeInputs(inputs, kwargs) ==
    LET after[k \in 0..Len(inputs)] ==
            IF k = 0 THEN Result(<<>>, <<>>)
            ELSE DecodeStep(after[k - 1], inputs[k],
                            DecodeInput(inputs[k], kwargs[inputs[k].name]))
    IN  after[Len(inputs)]

\* base64.b64encode(file.getvalue()).decode() of the serialized output
Base64(container, out) == StrV(<<"base64", container, out.id>>)

\* The body of the output loop for one (out, p) pair.
EncodeOutput(p, out, k) ==
    IF p.type = "ImageIO" THEN
        IF out.good THEN Result(Base64("png", out), <<Event("encode", k, NA, TRUE)>>)
        ELSE Raise(Exc("AttributeError", "object has no attribute to_pil"),
                   <<Event("encode", k, NA, FALSE)>>)
    ELSE IF p.type = "AudioIO" THEN
        IF out.good THEN Result(Base64("wav", out), <<Event("encode", k, NA, TRUE)>>)
        ELSE Raise(Exc("AttributeError", "object has no attribute to_tensor"),
                   <<Event("encode", k, NA, FALSE)>>)
    ELSE Result(out, <<Event("encode", k, NA, TRUE)>>)

Min(a, b) == IF a <= b THEN a ELSE b

\* One iteration of the output loop: res.append(out), or the raise ending it.
EncodeStep(prev, e) ==
    IF prev.raised THEN prev
    ELSE IF e.raised THEN Raise(e.exc, prev.log \o e.log)
    ELSE Result(Append(prev.value, e.value), prev.log \o e.log)

\* for out, p in zip(outs, tool.outputs): ... res.append(out)
\* after[k] is the state of the loop after k pairs: res, or the exception.
EncodeOutputs(outs, outputs, log) ==
    LET after[k \in 0..Min(Len(outs), Len(outputs))] ==
            IF k = 0 THEN Result(<<>>, log)
            ELSE EncodeStep(after[k - 1], EncodeOutput(outputs[k], outs[k], k))
    IN  after[Min(Len(outs), Len(outputs))]

\* outs = tool(**args); if not isinstance(outs, tuple): outs = [outs]
Outs(value) == IF value.kind = "tuple" THEN value.items ELSE <<value>>

\* The tail of _call returning a single result inside a tuple.
Pack_NoUnwrap(res) ==
    IF Len(res) = 0 THEN NoneV ELSE TupleOf(res)

\* The tail of _call: None, the bare value, or a tuple.
Pack(res) ==
    IF Len(res) = 0 THEN NoneV
    ELSE IF Len(res) = 1 THEN res[1]
    ELSE TupleOf(res)

\* return None / res[0] / tuple(res), when the output loop ended without a raise
Return(e) == IF e.raised THEN e ELSE Result(Pack(e.value), e.log)

\* outs = tool(**args) and what follows it; log already holds the invocation.
Invoke(tool, b, log) ==
    IF b.kind = "raise" THEN Raise(b.exc, log)
    ELSE Return(EncodeOutputs(Outs(b.value), tool.outputs, log))

\* The tool invoked with what was decoded even when the input loop raised.
AfterInputs_Regardless(tool, b, d) ==
    Invoke(tool, b,
           d.log \o <<Event("invoke", tool.name, d.value, b.kind = "return")>>)

\* What follows the input loop, d being the state it ended in.
AfterInputs(tool, b, d) ==
    IF d.raised THEN d
    ELSE Invoke(tool, b,
                d.log \o <<Event("invoke", tool.name, d.value, b.kind = "return")>>)

\* _call(**kwargs), the tool behaving as b when it is invoked.
_call(tool, kwargs, b) ==
    AfterInputs(tool, b, DecodeInputs(tool.inputs, kwargs))

\* The handler reporting str(e) where the code reports repr(e).
Try_StrDetail(r) ==
    IF r.raised
    THEN [outcome |-> "HTTPException", status |-> 400, detail |-> StrV(<<r.exc.msg>>),
          body |-> NA, exc |-> r.exc, log |-> r.log]
    ELSE [outcome |-> "response", status |-> 200, detail |-> NA,
          body |-> r.value, exc |-> NoneV, log |-> r.log]

\* try: return ...   except Exception as e: raise HTTPException(400, repr(e))
Try(r) ==
    IF r.raised
    THEN [outcome |-> "HTTPException", status |-> 400, detail |-> Repr(r.exc),
          body |-> NA, exc |-> r.exc, log |-> r.log]
    ELSE [outcome |-> "response", status |-> 200, detail |-> NA,
          body |-> r.value, exc |-> NoneV, log |-> r.log]

\* call(**kwargs)
call(tool, kwargs, b) == Try(_call(tool, kwargs, b))

\* -------------------------------------------------------------- the state
VARIABLES
    tools,        \* the tool instances load_tool returns, in command-line order
    setup,        \* the `setup` option of `start`
    pc,           \* "start": binding tools; "serving": uvicorn.run is serving
    setup_calls,  \* per tool instance, how many times setup() ran
    is_setup,     \* per tool instance, tool._is_setup
    routes,       \* the routes of the app, in registration order
    last          \* the last request and what became of it

vars == <<tools, setup, pc, setup_calls, is_setup, routes, last>>

\* The tool name used as it is.
ToolName_Raw(tool) == tool.name

\* tool_name = tool.name.replace(' ', '_')
ToolName(tool) == Replace(tool.name)

\* router.add_api_route(f'/{tool_name}', endpoint=create_function(signature, call),
\*                      methods=['POST'], operation_id=tool_name, summary=...)
\* t is the tool instance the closure `call` captures.
add_tool(tool, t, router) ==
    Append(router,
           [path         |-> <<"/">> \o ToolName(tool),
            methods      |-> {"POST"},
            operation_id |-> ToolName(tool),
            summary      |-> tool.description,
            endpoint     |-> [tool              |-> t,
                              input_params      |-> create_input_params(tool),
                              return_annotation |-> create_output_model(tool)]])

\* `start` leaving the setup to the first request.
SetupAtStart_Never(flag) == FALSE

\* Whether `start` sets the tool up in the loop: `if setup:`.
SetupAtStart(flag) == flag

StartArgs(S, n) == UNION {[1..m -> S] : m \in 1..n}

InitWith(S, n, flags) ==
    /\ tools \in StartArgs(S, n)
    /\ setup \in flags
    /\ pc = "start"
    /\ setup_calls = [t \in DOMAIN tools |-> 0]
    /\ is_setup = [t \in DOMAIN tools |-> FALSE]
    /\ routes = <<>>
    /\ last = [kind |-> "none"]

\* One iteration of `for name in tools:` in start.
StartIter ==
    /\ pc = "start"
    /\ Len(routes) < Len(tools)
    /\ LET t == Len(routes) + 1
       IN  /\ setup_calls' = IF SetupAtStart(setup)
                             THEN [setup_calls EXCEPT ![t] = @ + 1] ELSE setup_calls
           /\ is_setup' = IF SetupAtStart(setup)
                          THEN [is_setup EXCEPT ![t] = TRUE] ELSE is_setup
           /\ routes' = add_tool(tools[t], t, routes)
    /\ UNCHANGED <<tools, setup, pc, last>>

\* uvicorn.run(app, host=host, port=port)
RunServer ==
    /\ pc = "start"
    /\ Len(routes) = Len(tools)
    /\ pc' = "serving"
    /\ UNCHANGED <<tools, setup, setup_calls, is_setup, routes, last>>

\* ------------------------------------------------------------- requests
Methods == {"GET", "POST"}

RequestPaths ==
    {<<"/">> \o n : n \in Names \cup {<<"D">>, <<"E">>, <<"S">>, <<"X">>}}

PathMatches(path)    == {r \in 1..Len(routes) : routes[r].path = path}
FullMatches(path, m) == {r \in PathMatches(path) : m \in routes[r].methods}
\* The router hands the request to the first route that matches it.
First(S) == CHOOSE r \in S : \A q \in S : r <= q

Unhandled(method, path, status) ==
    [kind |-> "request", method |-> method, path |-> path, status |-> status,
     route |-> 0, tool |-> 0, form |-> NA, kwargs |-> NA, behaviour |-> NA,
     outcome |-> "refused", body |-> NA, detail |-> NA, exc |-> NoneV, log |-> <<>>]

Idle == pc = "serving" /\ last.kind = "none"

NotFound ==
    /\ Idle
    /\ \E method \in Methods, path \in RequestPaths :
        /\ PathMatches(path) = {}
        /\ last' = Unhandled(method, path, 404)
    /\ UNCHANGED <<tools, setup, pc, setup_calls, is_setup, routes>>

MethodNotAllowed ==
    /\ Idle
    /\ \E method \in Methods, path \in RequestPaths :
        /\ PathMatches(path) # {}
        /\ FullMatches(path, method) = {}
        /\ last' = Unhandled(method, path, 405)
    /\ UNCHANGED <<tools, setup, pc, setup_calls, is_setup, routes>>

\* The request does not fit the synthesized signature: 422, `call` never runs.
RejectOf(wide) ==
    /\ Idle
    /\ \E method \in Methods, path \in RequestPaths :
        /\ FullMatches(path, method) # {}
        /\ LET r      == First(FullMatches(path, method))
               params == routes[r].endpoint.input_params
           IN  \E form \in Forms(params, wide) :
                /\ \E k \in 1..Len(params) : Refused(params[k], form[k])
                /\ last' = [Unhandled(method, path, 422) EXCEPT
                                !.route = r, !.form = form]
    /\ UNCHANGED <<tools, setup, pc, setup_calls, is_setup, routes>>

Invoked(log) == \E k \in 1..Len(log) : log[k].op = "invoke"

\* The record of a request that reached the endpoint, res being what `call` did.
Handled(method, path, r, t, form, kwargs, b, res) ==
    [kind |-> "request", method |-> method, path |-> path, status |-> res.status,
     route |-> r, tool |-> t, form |-> form, kwargs |-> kwargs,
     behaviour |-> IF Invoked(res.log) THEN b ELSE NA,
     outcome |-> res.outcome, body |-> res.body, detail |-> res.detail,
     exc |-> res.exc, log |-> res.log]

\* BaseTool.__call__ sets the tool up when it is first used.
SetupOnCall(t, ran) ==
    /\ setup_calls' = IF ran /\ ~is_setup[t]
                      THEN [setup_calls EXCEPT ![t] = @ + 1] ELSE setup_calls
    /\ is_setup' = IF ran THEN [is_setup EXCEPT ![t] = TRUE] ELSE is_setup

\* The endpoint of route r runs on the form, the tool behaving as b.
Endpoint(method, path, r, form, b) ==
    /\ \A k \in 1..Len(form) : ~Refused(routes[r].endpoint.input_params[k], form[k])
    /\ last' = Handled(method, path, r, routes[r].endpoint.tool, form,
                       Kwargs(routes[r].endpoint.input_params, form), b,
                       call(tools[routes[r].endpoint.tool],
                            Kwargs(routes[r].endpoint.input_params, form), b))
    /\ SetupOnCall(routes[r].endpoint.tool, Invoked(last'.log))

\* The request reaches the endpoint: call(**kwargs) runs to its end.
HandleOf(wide) ==
    /\ Idle
    /\ \E method \in Methods, path \in RequestPaths :
        /\ FullMatches(path, method) # {}
        /\ \E form \in Forms(routes[First(FullMatches(path, method))].endpoint.input_params,
                             wide),
              b \in Behaviours(tools[routes[First(FullMatches(path, method))].endpoint.tool],
                               wide) :
                Endpoint(method, path, First(FullMatches(path, method)), form, b)
    /\ UNCHANGED <<tools, setup, pc, routes>>

Reject == RejectOf(TRUE)
Handle == HandleOf(TRUE)

\* The same requests, every field sent being well-formed and the tool
\* returning nothing.
RejectPlain == RejectOf(FALSE)
HandlePlain == HandleOf(FALSE)

\* The response is sent and the request's data discarded.
Respond ==
    /\ pc = "serving"
    /\ last.kind = "request"
    /\ last' = [kind |-> "none"]
    /\ UNCHANGED <<tools, setup, pc, setup_calls, is_setup, routes>>

Next ==
    \/ StartIter
    \/ RunServer
    \/ NotFound
    \/ MethodNotAllowed
    \/ Reject
    \/ Handle
    \/ Respond

\* `start` with up to MaxTools OCR tools under different names, with and
\* without the `setup` option.
Init == InitWith(ServerTools, MaxTools, BOOLEAN)
Spec == Init /\ [][Next]_vars

\* `start`, with its default `setup` option, with one tool, over the declared
\* inputs and outputs a tool may have.
InitCall == InitWith(DecodeTools(MaxInputs) \cup EncodeTools(MaxOutputs), 1, {TRUE})
SpecCall == InitCall /\ [][Next]_vars

\* `start`, with its default `setup` option, with one tool, over the input
\* declarations a tool may have.
NextSchema ==
    \/ StartIter
    \/ RunServer
    \/ RejectPlain
    \/ HandlePlain
    \/ Respond

InitSchema == InitWith(SchemaTools(MaxInputs), 1, {TRUE})
SpecSchema == InitSchema /\ [][NextSchema]_vars

\* ================================================================ claims
\* The last request reached the endpoint `call`.
Reached == last.kind = "request" /\ last.outcome # "refused"

TheTool   == tools[last.tool]
Failed(log) == \E k \in 1..Len(log) : ~log[k].ok
InvokeAt(log) == {k \in 1..Len(log) : log[k].op = "invoke"}

\* C1: whenever an exception is raised while decoding an input, invoking the
\* tool or encoding an output, the request ends in an HTTP 400 error whose
\* detail is the repr of that exception, and nothing is returned as a response;
\* a request ends in a response only when no step failed.
C1_ExceptionsBecome400 ==
    Reached =>
        /\ _call(TheTool, last.kwargs, last.behaviour).raised =>
              /\ last.outcome = "HTTPException"
              /\ last.status = 400
              /\ last.detail = StrV(<<_call(TheTool, last.kwargs, last.behaviour).exc.type,
                                      "(",
                                      _call(TheTool, last.kwargs, last.behaviour).exc.msg,
                                      ")">>)
              /\ last.body = NA
        /\ Failed(last.log) => last.outcome = "HTTPException" /\ last.body = NA
        /\ last.outcome \in {"HTTPException", "response"}
        /\ last.outcome = "response" => last.status = 200 /\ ~Failed(last.log)

\* C1 witness: the second of several outputs fails to encode after the first
\* was encoded, and the request ends in a 400.
C1_Witness ==
    /\ Reached
    /\ last.status = 400
    /\ \E j, k \in 1..Len(last.log) :
        /\ j < k
        /\ last.log[j].op = "encode" /\ last.log[j].ok
        /\ last.log[k].op = "encode" /\ ~last.log[k].ok

\* The request ended in a successful response.
Succeeded == Reached /\ last.outcome = "response"

\* The values the tool returned, a non-tuple counting as one value.
ReturnedValues ==
    IF last.behaviour.value.kind = "tuple"
    THEN last.behaviour.value.items ELSE <<last.behaviour.value>>

\* The encoding the k-th declared output asks for, of the k-th returned value.
Encoded(k) ==
    IF TheTool.outputs[k].type = "ImageIO"
    THEN StrV(<<"base64", "png", ReturnedValues[k].id>>)
    ELSE IF TheTool.outputs[k].type = "AudioIO"
    THEN StrV(<<"base64", "wav", ReturnedValues[k].id>>)
    ELSE ReturnedValues[k]

\* null for no output, the bare value for one, a tuple of n in order otherwise
ShapedAs(n) ==
    IF n = 0 THEN last.body = NoneV
    ELSE IF n = 1 THEN Len(ReturnedValues) >= 1 /\ last.body = Encoded(1)
    ELSE /\ last.body.kind = "tuple"
         /\ Len(last.body.items) = n
         /\ Len(ReturnedValues) >= n
         /\ \A k \in 1..n : last.body.items[k] = Encoded(k)

\* C2, as claimed: a successful response is null for a tool with no declared
\* output, the bare encoded value for one, and a tuple of exactly N encoded
\* values in declared order for N >= 2, whatever the tool returned.
C2_ShapeWhateverReturned ==
    Succeeded => ShapedAs(Len(TheTool.outputs))

\* C2, amended: the same, when the tool returned at least as many values as it
\* declares outputs (a non-tuple counting as one value); the values beyond the
\* declared outputs are dropped.
C2_ShapeWhenEnoughReturned ==
    (Succeeded /\ Len(ReturnedValues) >= Len(TheTool.outputs)) =>
        ShapedAs(Len(TheTool.outputs))

\* C2 witness: a tool with two declared outputs returned a tuple of three and
\* the request succeeded.
C2_Witness ==
    /\ Succeeded
    /\ Len(TheTool.outputs) = 2
    /\ last.behaviour.value.kind = "tuple"
    /\ Len(ReturnedValues) = 3
    /\ TheTool.outputs[1].type = "ImageIO"

\* C3, as claimed: when the caller omits an optional input, decoding that input
\* does not fail and the tool, when invoked, gets no keyword argument for it.
C3_OmittedOptionalNotPassed ==
    Reached =>
        \A k \in 1..Len(TheTool.inputs) :
            (TheTool.inputs[k].optional /\ last.form[k] = Absent) =>
                /\ \A j \in 1..Len(last.log) :
                      (last.log[j].op = "decode"
                       /\ last.log[j].name = TheTool.inputs[k].name) => last.log[j].ok
                /\ \A j \in InvokeAt(last.log) :
                      TheTool.inputs[k].name \notin DOMAIN last.log[j].detail

\* C5: no response schema for no declared output, the field's type for one, a
\* tuple of the N field types in declared order for N >= 2; an image output is
\* a string of format image/png;base64, an audio output a string of format
\* audio/wav;base64, a primitive output keeps its type.
OutputFieldOf(p) ==
    IF p.type = "ImageIO"
    THEN [type |-> "str", format |-> StrV(<<"image/png;base64">>)]
    ELSE IF p.type = "AudioIO"
    THEN [type |-> "str", format |-> StrV(<<"audio/wav;base64">>)]
    ELSE [type |-> p.type, format |-> NoneV]

C5_OutputModel ==
    \A r \in 1..Len(routes) :
        LET outs  == tools[routes[r].endpoint.tool].outputs
            model == routes[r].endpoint.return_annotation
        IN  /\ Len(outs) = 0 => model = NoneV
            /\ Len(outs) = 1 => model = [kind |-> "field", field |-> OutputFieldOf(outs[1])]
            /\ Len(outs) >= 2 =>
                 /\ model.kind = "tuple"
                 /\ Len(model.items) = Len(outs)
                 /\ \A k \in 1..Len(outs) : model.items[k] = OutputFieldOf(outs[k])

\* C5 witness: a bound tool declaring an image output and then an audio output.
C5_Witness ==
    \E r \in 1..Len(routes) :
        LET outs == tools[routes[r].endpoint.tool].outputs
        IN  /\ Len(outs) = 2
            /\ outs[1].type = "ImageIO"
            /\ outs[2].type = "AudioIO"

\* C4: one request parameter per declared input, in declared order and under
\* the input's name; an image or audio input is a binary-upload field of format
\* image;binary or audio;binary, any other a form field of the declared type;
\* the field carries the description iff the declaration has a (non-empty) one;
\* the parameter has the declared default iff the input is optional and is
\* required otherwise; a request missing a required input is refused with the
\* tool never invoked.
C4_InputParams ==
    /\ \A r \in 1..Len(routes) :
        LET ins    == tools[routes[r].endpoint.tool].inputs
            params == routes[r].endpoint.input_params
        IN  /\ Len(params) = Len(ins)
            /\ \A k \in 1..Len(ins) :
                /\ params[k].name = ins[k].name
                /\ ins[k].type = "ImageIO" =>
                     /\ params[k].annotation.source = "File"
                     /\ params[k].annotation.type = "UploadFile"
                     /\ params[k].annotation.format = StrV(<<"image;binary">>)
                /\ ins[k].type = "AudioIO" =>
                     /\ params[k].annotation.source = "File"
                     /\ params[k].annotation.type = "UploadFile"
                     /\ params[k].annotation.format = StrV(<<"audio;binary">>)
                /\ ins[k].type \notin {"ImageIO", "AudioIO"} =>
                     /\ params[k].annotation.source = "Form"
                     /\ params[k].annotation.type = ins[k].type
                /\ IF ins[k].description \in {NoneV, StrV(<<>>)}
                   THEN params[k].annotation.description = NoneV
                   ELSE params[k].annotation.description = ins[k].description
                /\ IF ins[k].optional
                   THEN params[k].default = ins[k].default
                   ELSE params[k].default = EmptyV
    /\ (last.kind = "request" /\ last.route # 0) =>
        LET ins == tools[routes[last.route].endpoint.tool].inputs
        IN  (\E k \in 1..Len(ins) : ~ins[k].optional /\ last.form[k] = Absent) =>
                /\ last.status = 422
                /\ last.outcome = "refused"
                /\ InvokeAt(last.log) = {}

\* C4 witness: a request leaving out the required second input of a tool whose
\* first input is a described image has been refused.
C4_Witness ==
    /\ last.kind = "request"
    /\ last.status = 422
    /\ LET ins == tools[routes[last.route].endpoint.tool].inputs
       IN  /\ Len(ins) = 2
           /\ ins[1].type = "ImageIO"
           /\ ins[1].description = StrV(<<"d">>)
           /\ last.form[1] # Absent
           /\ ins[2].type = "int" /\ ~ins[2].optional
           /\ last.form[2] = Absent

\* C6: every tool bound so far has exactly one route, with method POST, path
\* "/" followed by the tool name with every space replaced by an underscore and
\* nothing else changed, the operation id that same name, and the summary the
\* tool's description; once serving, every tool is bound.
Normalized(name, to) ==
    /\ Len(to) = Len(name)
    /\ \A k \in 1..Len(name) : to[k] = (IF name[k] = " " THEN "_" ELSE name[k])

C6_OneRoutePerTool ==
    /\ Len(routes) <= Len(tools)
    /\ pc = "serving" => Len(routes) = Len(tools)
    /\ \A r \in 1..Len(routes) :
        /\ routes[r].endpoint.tool = r
        /\ routes[r].methods = {"POST"}
        /\ Len(routes[r].path) >= 1
        /\ routes[r].path[1] = "/"
        /\ Normalized(tools[r].name, Tail(routes[r].path))
        /\ Normalized(tools[r].name, routes[r].operation_id)
        /\ routes[r].summary = tools[r].description

\* C6 witness: the tool named "T O" is served at "/T_O".
C6_Witness ==
    /\ pc = "serving"
    /\ \E r \in 1..Len(routes) :
        /\ tools[r].name = <<"T", " ", "O">>
        /\ routes[r].path = <<"/", "T", "_", "O">>

\* C7, as claimed: whatever the options of `start`, once the server is serving
\* every tool's setup() has run exactly once.
C7_SetupOnceBeforeServing ==
    pc = "serving" => \A t \in DOMAIN tools : setup_calls[t] = 1

\* C7, amended: when the `setup` option is true, setup() runs exactly once for
\* each tool as it is bound, so every tool is set up when the server starts
\* serving, and it never runs again while the server serves.
C7_SetupOnceWhenFlagSet ==
    setup =>
        /\ \A t \in DOMAIN tools :
            /\ t <= Len(routes) => setup_calls[t] = 1 /\ is_setup[t]
            /\ t > Len(routes) => setup_calls[t] = 0
        /\ pc = "serving" => \A t \in DOMAIN tools : setup_calls[t] = 1

\* C7 witness: under the `setup` option a request has been answered by a tool
\* that start had set up.
C7_Witness ==
    /\ setup
    /\ Succeeded
    /\ InvokeAt(last.log) # {}
    /\ setup_calls[last.tool] = 1

\* The position of the declared input named n.
InputNamed(n) == CHOOSE k \in 1..Len(TheTool.inputs) : TheTool.inputs[k].name = n

\* The uploaded file name has an extension: a '.' with text after the last one.
HasExtension(f) ==
    \E k \in 1..Len(f) :
        /\ f[k] = "."
        /\ k < Len(f)
        /\ \A j \in (k + 1)..Len(f) : f[j] # "."

ExtensionOf(f) ==
    LET k == CHOOSE j \in 1..Len(f) : f[j] = "." /\ \A i \in (j + 1)..Len(f) : f[i] # "."
    IN  SubSeq(f, k + 1, Len(f))

\* C8, as claimed: the format handed to the audio decoder is the uploaded file
\* name's extension when it has one, and None when it has none, be the name
\* empty, without any '.', or ending in '.'.
C8_FormatIsExtensionOrNone ==
    Reached =>
        \A j \in 1..Len(last.log) :
            (last.log[j].op = "decode" /\ last.log[j].detail # NA) =>
                LET f == last.kwargs[last.log[j].name].filename
                IN  IF HasExtension(f)
                    THEN last.log[j].detail = StrV(ExtensionOf(f))
                    ELSE last.log[j].detail = NoneV

\* C9: within one request the tool is invoked at most once; every decoding
\* comes before the invocation, in declared input order; when the tool is
\* invoked every declared input has been decoded (or was a None primitive,
\* which is left out); and when a decoding fails the tool is not invoked.
C9_InvokedOnceAfterDecoding ==
    Reached =>
        /\ Cardinality(InvokeAt(last.log)) <= 1
        /\ \A j, k \in 1..Len(last.log) :
            (last.log[j].op = "decode" /\ last.log[k].op = "invoke") => j < k
        /\ \A j, k \in 1..Len(last.log) :
            (j < k /\ last.log[j].op = "decode" /\ last.log[k].op = "decode") =>
                InputNamed(last.log[j].name) < InputNamed(last.log[k].name)
        /\ InvokeAt(last.log) # {} =>
            \A i \in 1..Len(TheTool.inputs) :
                \/ \E j \in 1..Len(last.log) :
                    /\ last.log[j].op = "decode"
                    /\ last.log[j].name = TheTool.inputs[i].name
                    /\ last.log[j].ok
                \/ /\ TheTool.inputs[i].type \notin {"ImageIO", "AudioIO"}
                   /\ last.kwargs[TheTool.inputs[i].name] = NoneV
        /\ (\E j \in 1..Len(last.log) : last.log[j].op = "decode" /\ ~last.log[j].ok) =>
                InvokeAt(last.log) = {}
        /\ \A j, k \in 1..Len(last.log) :
            (j < k /\ ~last.log[j].ok) => last.log[k].op # "invoke"

\* C9 witness: the first input was decoded, the second failed to decode and the
\* tool was not invoked.
C9_Witness ==
    /\ Reached
    /\ Len(last.log) = 2
    /\ last.log[1].op = "decode" /\ last.log[1].ok
    /\ last.log[2].op = "decode" /\ ~last.log[2].ok

\* C10, as claimed: when the tools have pairwise distinct names, the routes
\* have pairwise distinct paths and operation ids, and a request to the path a
\* tool was bound at is handled by that tool.
C10_DistinctNamesDistinctRoutes ==
    (\A a, b \in DOMAIN tools : a # b => tools[a].name # tools[b].name) =>
        /\ \A a, b \in 1..Len(routes) :
            a # b => /\ routes[a].path # routes[b].path
                     /\ routes[a].operation_id # routes[b].operation_id
        /\ \A r \in 1..Len(routes) :
            (Reached /\ last.path = routes[r].path) => last.tool = r

====
